---------------------------- MODULE Spec2Model ----------------------------
(***************************************************************************)
(* Model of the developers-conferences-agenda MCP server (main.go):       *)
(* millisToTime, fetchAndParseEvents and the tool / resource handlers      *)
(* registered in main.                                                     *)
(*                                                                         *)
(* TLC integers are 32 bits wide, the program's are int64.  An int64 is    *)
(* therefore kept as four 16-bit limbs, least significant first, in two's  *)
(* complement, and the arithmetic on it wraps modulo 2^64 as Go's does.    *)
(* A time.Time is kept as Go keeps it: whole seconds since January 1,      *)
(* year 1 UTC (an int64) and nanoseconds within the second.                *)
(***************************************************************************)
EXTENDS Integers, Sequences, FiniteSets, TLC

--------------------------------------------------------------------------
(* int64 arithmetic *)

LimbBase == 2^16

\* the int64 with value n, for 0 <= n < 2^31
FromNat(n) ==
    <<n % LimbBase, n \div LimbBase, 0, 0>>

Zero64 == FromNat(0)

IsNeg(x) == x[4] >= LimbBase \div 2

\* x + y, wrapping modulo 2^64
AddW(x, y) ==
    LET s1 == x[1] + y[1]
        s2 == x[2] + y[2] + s1 \div LimbBase
        s3 == x[3] + y[3] + s2 \div LimbBase
        s4 == x[4] + y[4] + s3 \div LimbBase
    IN  <<s1 % LimbBase, s2 % LimbBase, s3 % LimbBase, s4 % LimbBase>>

\* -x, wrapping modulo 2^64
NegW(x) ==
    AddW(<<LimbBase - 1 - x[1], LimbBase - 1 - x[2],
           LimbBase - 1 - x[3], LimbBase - 1 - x[4]>>, FromNat(1))

SubW(x, y) == AddW(x, NegW(y))

\* x * k, wrapping modulo 2^64, for 0 <= k <= 2^14
MulSmall(x, k) ==
    LET p1 == x[1] * k
        p2 == x[2] * k + p1 \div LimbBase
        p3 == x[3] * k + p2 \div LimbBase
        p4 == x[4] * k + p3 \div LimbBase
    IN  <<p1 % LimbBase, p2 % LimbBase, p3 % LimbBase, p4 % LimbBase>>

\* x * k, wrapping modulo 2^64, for 0 <= k < 2^31
RECURSIVE MulNat(_, _)
MulNat(x, k) ==
    IF k <= 2^14
    THEN MulSmall(x, k)
    ELSE AddW(MulSmall(MulNat(x, k \div 2^14), 2^14), MulSmall(x, k % 2^14))

\* unsigned comparison of the limbs, most significant first
LessU(x, y) ==
    \E i \in 1..4 : x[i] < y[i] /\ \A j \in (i+1)..4 : x[j] = y[j]

\* x < y as int64
Less64(x, y) ==
    IF IsNeg(x) # IsNeg(y) THEN IsNeg(x) ELSE LessU(x, y)

\* quotient and remainder of the non-negative x by d, for 0 < d <= 2^14
DivSmall(x, d) ==
    LET t4 == x[4]
        t3 == (t4 % d) * LimbBase + x[3]
        t2 == (t3 % d) * LimbBase + x[2]
        t1 == (t2 % d) * LimbBase + x[1]
    IN  [q |-> <<t1 \div d, t2 \div d, t3 \div d, t4 \div d>>, r |-> t1 % d]

\* the int64 written in decimal: digits most significant first
RECURSIVE FromDigits(_)
FromDigits(ds) ==
    IF ds = <<>>
    THEN Zero64
    ELSE AddW(MulSmall(FromDigits(SubSeq(ds, 1, Len(ds) - 1)), 10),
              FromNat(ds[Len(ds)]))

--------------------------------------------------------------------------
(* time.Time *)

\* http.StatusOK
StatusOK == 200

\* time.Millisecond, in nanoseconds
Millisecond == 1000000

\* seconds from January 1, year 1 to January 1, 1970 (unixToInternal)
UnixToInternal == FromDigits(<<6, 2, 1, 3, 5, 5, 9, 6, 8, 0, 0>>)

\* time.Time{}
ZeroTime == [sec |-> Zero64, nsec |-> 0]

IsZero(t) == t.sec = Zero64 /\ t.nsec = 0

Before(t, u) ==
    Less64(t.sec, u.sec) \/ (t.sec = u.sec /\ t.nsec < u.nsec)

After(t, u) == Before(u, t)

RECURSIVE DivThousands(_, _)

\* x = 1000 * y + r and y = 1000^k * rest.q + rest.r give
\* x = 1000^(k+1) * rest.q + (r + 1000 * rest.r)
Shift(rest, r) == [q |-> rest.q, r |-> r + 1000 * rest.r]

\* DivThousands, given x divided by 1000
Carry(d, n) == Shift(DivThousands(d.q, n - 1), d.r)

\* quotient and remainder of the non-negative x by 1000^n, n <= 3
DivThousands(x, n) ==
    IF n = 0
    THEN [q |-> x, r |-> 0]
    ELSE Carry(DivSmall(x, 1000), n)

Negate(qr) == [q |-> NegW(qr.q), r |-> 0 - qr.r]

\* nsec / 1e9 truncated toward zero and its remainder, as Go divides
QuoRem1e9(nsec) ==
    IF IsNeg(nsec) THEN Negate(DivThousands(NegW(nsec), 3))
                   ELSE DivThousands(nsec, 3)

\* time.Unix(0, nsec), given nsec / 1e9 and its remainder: the remainder
\* is brought into [0, 1e9) and the seconds are counted from year 1
UnixTime(qr) ==
    IF qr.r < 0
    THEN [sec  |-> AddW(SubW(qr.q, FromNat(1)), UnixToInternal),
          nsec |-> qr.r + 1000000000]
    ELSE [sec |-> AddW(qr.q, UnixToInternal), nsec |-> qr.r]

\* time.Unix(0, nsec).UTC()
Unix0(nsec) == UnixTime(QuoRem1e9(nsec))

millisToTime(millis) ==
    IF millis = Zero64
    THEN ZeroTime
    ELSE Unix0(MulNat(millis, Millisecond))

--------------------------------------------------------------------------
(* time.Parse("2006-01-02", value) and time.Date *)

Digits == {"0", "1", "2", "3", "4", "5", "6", "7", "8", "9"}

DigitVal(c) ==
    CASE c = "0" -> 0 [] c = "1" -> 1 [] c = "2" -> 2 [] c = "3" -> 3
      [] c = "4" -> 4 [] c = "5" -> 5 [] c = "6" -> 6 [] c = "7" -> 7
      [] c = "8" -> 8 [] c = "9" -> 9

IsLeap(y) == y % 4 = 0 /\ (y % 100 # 0 \/ y % 400 = 0)

DaysIn(m, y) ==
    IF m = 2 THEN (IF IsLeap(y) THEN 29 ELSE 28)
    ELSE IF m \in {4, 6, 9, 11} THEN 30 ELSE 31

RECURSIVE DaysBefore(_, _)
DaysBefore(m, y) ==
    IF m = 1 THEN 0 ELSE DaysBefore(m - 1, y) + DaysIn(m - 1, y)

\* days from January 1, year 1 to the given day
DaysSinceYear1(y, m, d) ==
    365 * (y - 1) + (y - 1) \div 4 - (y - 1) \div 100 + (y - 1) \div 400
        + DaysBefore(m, y) + d - 1

\* time.Date(y, m, d, 0, 0, 0, 0, time.UTC)
Date(y, m, d) ==
    LET days == DaysSinceYear1(y, m, d)
    IN  [sec  |-> IF days < 0 THEN NegW(MulNat(FromNat(0 - days), 86400))
                              ELSE MulNat(FromNat(days), 86400),
         nsec |-> 0]

\* Parse, were the month and the day not checked against the calendar
ParseDateUnchecked(value) ==
    IF /\ Len(value) = 10
       /\ \A i \in {1, 2, 3, 4, 6, 7, 9, 10} : value[i] \in Digits
       /\ value[5] = "-"
       /\ value[8] = "-"
    THEN [ok |-> TRUE, t |-> ZeroTime]
    ELSE [ok |-> FALSE, t |-> ZeroTime]

\* The layout asks for four digits, "-", two digits, "-", two digits and
\* nothing after them; then the month must be 1..12 and the day must be a
\* day of that month.  ok is whether Parse returns no error.
ParseDate(value) ==
    LET wellFormed ==
            /\ Len(value) = 10
            /\ \A i \in {1, 2, 3, 4, 6, 7, 9, 10} : value[i] \in Digits
            /\ value[5] = "-"
            /\ value[8] = "-"
        y == 1000 * DigitVal(value[1]) + 100 * DigitVal(value[2])
                 + 10 * DigitVal(value[3]) + DigitVal(value[4])
        m == 10 * DigitVal(value[6]) + DigitVal(value[7])
        d == 10 * DigitVal(value[9]) + DigitVal(value[10])
    IN  IF wellFormed /\ m \in 1..12 /\ d \in 1..DaysIn(m, y)
        THEN [ok |-> TRUE, t |-> Date(y, m, d)]
        ELSE [ok |-> FALSE, t |-> ZeroTime]

--------------------------------------------------------------------------
(* strings: a Go string is the sequence of its characters *)

Str0 == <<>>

RECURSIVE Concat(_)
Concat(ss) ==
    IF ss = <<>> THEN Str0 ELSE Head(ss) \o Concat(Tail(ss))

\* A character outside ASCII is written as its code point: U+03A3 is the
\* Greek capital sigma, U+03C3 the small sigma and U+03C2 the small final
\* sigma, which is a lower-case letter already.
UpperCase ==
    <<"A", "B", "C", "D", "E", "F", "G", "H", "I", "J", "K", "L", "M",
      "N", "O", "P", "Q", "R", "S", "T", "U", "V", "W", "X", "Y", "Z",
      "U+03A3">>

\* unicode.ToLower of each
LowerCase ==
    <<"a", "b", "c", "d", "e", "f", "g", "h", "i", "j", "k", "l", "m",
      "n", "o", "p", "q", "r", "s", "t", "u", "v", "w", "x", "y", "z",
      "U+03C3">>

\* the lower-case letter of each upper-case letter
Lowered ==
    [c \in {UpperCase[i] : i \in 1..Len(UpperCase)} |->
        LowerCase[CHOOSE i \in 1..Len(UpperCase) : UpperCase[i] = c]]

ToLowerChar(c) == IF c \in DOMAIN Lowered THEN Lowered[c] ELSE c

\* strings.ToLower
ToLower(s) == [i \in 1..Len(s) |-> ToLowerChar(s[i])]

\* strings.Contains
StringsContains(s, substr) ==
    \E i \in 0..(Len(s) - Len(substr)) :
        \A j \in 1..Len(substr) : s[i + j] = substr[j]

contains(s, substr) == StringsContains(ToLower(s), ToLower(substr))

--------------------------------------------------------------------------
(* encoding/json: the document served by the feed, and its decoding *)

\* A JSON number is its sign and decimal digits.  A JSON event object is
\* the values of the keys the Event struct reads; wellTyped is FALSE when
\* the value under "name" is not a JSON string.  The keys hyperlink,
\* closedCaptions, scholarship, status and cfp.until are decoded and
\* never read again, and are left out.
Num(neg, ds) == [neg |-> neg, digits |-> ds]

MaxInt64Digits == <<9, 2, 2, 3, 3, 7, 2, 0, 3, 6, 8, 5, 4, 7, 7, 5, 8, 0, 7>>

\* a <= b for digit sequences of one length
DigitsLE(a, b) ==
    a = b \/ \E i \in 1..Len(a) :
                a[i] < b[i] /\ \A j \in 1..(i-1) : a[j] = b[j]

\* whether the number fits an int64 (strconv.ParseInt inside json)
FitsInt64(n) ==
    \/ Len(n.digits) < Len(MaxInt64Digits)
    \/ /\ Len(n.digits) = Len(MaxInt64Digits)
       /\ \/ DigitsLE(n.digits, MaxInt64Digits)
          \/ n.neg /\ n.digits = [MaxInt64Digits EXCEPT ![19] = 8]

ToInt64(n) ==
    IF n.neg THEN NegW(FromDigits(n.digits)) ELSE FromDigits(n.digits)

\* whether json decodes the object into an Event without a type error
Decodable(o) ==
    /\ o.wellTyped
    /\ \A i \in 1..Len(o.date) : FitsInt64(o.date[i])
    /\ FitsInt64(o.untilDate)

\* The Event json leaves behind for one object.  On a type error json
\* skips the offending value, leaves that field at its zero value and
\* goes on.  The computed fields have the tag json:"-" and stay zero.
DecodeEvent(o) ==
    [Name           |-> IF o.wellTyped THEN o.name ELSE Str0,
     DateTimestamps |-> [i \in 1..Len(o.date) |->
                           IF FitsInt64(o.date[i]) THEN ToInt64(o.date[i])
                                                   ELSE Zero64],
     Location       |-> o.location,
     City           |-> o.city,
     Country        |-> o.country,
     Misc           |-> o.misc,
     CFP            |-> [Link      |-> o.link,
                         UntilDate |-> IF FitsInt64(o.untilDate)
                                       THEN ToInt64(o.untilDate)
                                       ELSE Zero64],
     StartDate      |-> ZeroTime,
     EndDate        |-> ZeroTime,
     CFPEndDate     |-> ZeroTime]

DecodeEvents(items) == [i \in 1..Len(items) |-> DecodeEvent(items[i])]

SyntaxOK(doc) == doc.shape \in {"array", "object", "null", "number"}

\* json.Unmarshal(body, &events), events a nil []Event: the error and
\* what events holds afterwards
UnmarshalSlice(doc) ==
    IF ~SyntaxOK(doc)
    THEN [err |-> "syntax", events |-> <<>>]
    ELSE IF doc.shape = "null"
    THEN [err |-> "nil", events |-> <<>>]
    ELSE IF doc.shape = "array"
    THEN [err    |-> IF \A i \in 1..Len(doc.items) : Decodable(doc.items[i])
                     THEN "nil" ELSE "type",
          events |-> DecodeEvents(doc.items)]
    ELSE [err |-> "type", events |-> <<>>]

\* json.Unmarshal(body, &wrappedData), wrappedData a zero EventData
UnmarshalWrapper(doc) ==
    IF ~SyntaxOK(doc)
    THEN [err |-> "syntax", events |-> <<>>]
    ELSE IF doc.shape = "null"
    THEN [err |-> "nil", events |-> <<>>]
    ELSE IF doc.shape = "object"
    THEN IF doc.hasEvents
         THEN [err    |-> IF \A i \in 1..Len(doc.items) :
                                Decodable(doc.items[i])
                          THEN "nil" ELSE "type",
               events |-> DecodeEvents(doc.items)]
         ELSE [err |-> "nil", events |-> <<>>]
    ELSE [err |-> "type", events |-> <<>>]

--------------------------------------------------------------------------
(* fetchAndParseEvents *)

\* lines 116-122, StartDate being set
SetEndDate(e) ==
    IF Len(e.DateTimestamps) > 1
    THEN [e EXCEPT !.EndDate =
                      millisToTime(e.DateTimestamps[Len(e.DateTimestamps)])]
    ELSE [e EXCEPT !.EndDate = e.StartDate]

\* lines 113-123
SetDates(e) ==
    IF Len(e.DateTimestamps) > 0
    THEN SetEndDate([e EXCEPT !.StartDate = millisToTime(e.DateTimestamps[1])])
    ELSE e

\* lines 126-128
SetCFPEndDate(e) ==
    IF Less64(Zero64, e.CFP.UntilDate)
    THEN [e EXCEPT !.CFPEndDate = millisToTime(e.CFP.UntilDate)]
    ELSE e

\* lines 111-129: the body of the loop
ProcessComputedFields(e) == SetCFPEndDate(SetDates(e))

NoError == [kind |-> "nil", code |-> 0, cause |-> "nil"]

\* the decode, were the error return to hand back what the first
\* Unmarshal had filled in
ParseBodyKeepsPartial(doc) ==
    LET direct == UnmarshalSlice(doc)
        wrapped == UnmarshalWrapper(doc)
    IN  IF direct.err = "nil"
        THEN [events |-> direct.events, err |-> NoError]
        ELSE IF wrapped.err # "nil"
        THEN [events |-> direct.events,
              err |-> [kind |-> "failed to parse event data", code |-> 0,
                       cause |-> wrapped.err]]
        ELSE [events |-> wrapped.events, err |-> NoError]

\* the decode, were events = wrappedData.Events left out
ParseBodyDropsWrapped(doc) ==
    LET direct == UnmarshalSlice(doc)
        wrapped == UnmarshalWrapper(doc)
    IN  IF direct.err = "nil"
        THEN [events |-> direct.events, err |-> NoError]
        ELSE IF wrapped.err # "nil"
        THEN [events |-> <<>>,
              err |-> [kind |-> "failed to parse event data", code |-> 0,
                       cause |-> wrapped.err]]
        ELSE [events |-> direct.events, err |-> NoError]

\* the decode, were a wrapper that holds no events an error
ParseBodyNeedsEvents(doc) ==
    LET direct == UnmarshalSlice(doc)
        wrapped == UnmarshalWrapper(doc)
    IN  IF direct.err = "nil"
        THEN [events |-> direct.events, err |-> NoError]
        ELSE IF wrapped.err # "nil" \/ wrapped.events = <<>>
        THEN [events |-> <<>>,
              err |-> [kind |-> "failed to parse event data", code |-> 0,
                       cause |-> wrapped.err]]
        ELSE [events |-> wrapped.events, err |-> NoError]

\* lines 100-108: the two-shape decode
ParseBody(doc) ==
    LET direct == UnmarshalSlice(doc)
        wrapped == UnmarshalWrapper(doc)
    IN  IF direct.err = "nil"
        THEN [events |-> direct.events, err |-> NoError]
        ELSE IF wrapped.err # "nil"
        THEN [events |-> <<>>,
              err |-> [kind |-> "failed to parse event data", code |-> 0,
                       cause |-> wrapped.err]]
        ELSE [events |-> wrapped.events, err |-> NoError]

\* lines 104-131, given what the decode gave
Processed(parsed) ==
    IF parsed.err # NoError
    THEN parsed
    ELSE [events |-> [i \in 1..Len(parsed.events) |->
                        ProcessComputedFields(parsed.events[i])],
          err |-> NoError]

\* what http.Get(eventDataURL) and reading the body give is the argument
fetchAndParseEvents(get) ==
    IF get.transport # "nil"
    THEN [events |-> <<>>,
          err |-> [kind |-> "failed to fetch events", code |-> 0,
                   cause |-> get.transport]]
    ELSE IF get.status # StatusOK
    THEN [events |-> <<>>,
          err |-> [kind |-> "unexpected status code", code |-> get.status,
                   cause |-> "nil"]]
    ELSE IF get.read # "nil"
    THEN [events |-> <<>>,
          err |-> [kind |-> "failed to read response body", code |-> 0,
                   cause |-> get.read]]
    ELSE Processed(ParseBody(get.body))

--------------------------------------------------------------------------
(* the handlers registered in main.  Each begins by calling
   fetchAndParseEvents; what that call returned is the parameter got. *)

\* A handler returns (response, error).  A tool response holds one text
\* content: a message made of a prefix and an error, or the indented JSON
\* of an event list.  events is the list that is marshalled.
TextResponse(prefix, cause) ==
    [failure |-> NoError, content |-> "message", prefix |-> prefix,
     cause |-> cause, events |-> <<>>]

EventsResponse(events) ==
    [failure |-> NoError, content |-> "events", prefix |-> "",
     cause |-> NoError, events |-> events]

\* return nil, err
Failure(err) ==
    [failure |-> err, content |-> "none", prefix |-> "",
     cause |-> NoError, events |-> <<>>]

ParseError == [kind |-> "parsing time", code |-> 0, cause |-> "nil"]

\* lines 179-201: whether the loop body reaches the append
Matches(event, args, now, fromDate, toDate, cfpFromDate, cfpToDate) ==
    /\ ~(args.Query # Str0 /\
         ~contains(Concat(<<event.Name, event.Location, event.City,
                            event.Country, event.Misc>>), args.Query))
    /\ ~(args.Location # Str0 /\ ~contains(event.Location, args.Location))
    /\ ~(~IsZero(fromDate) /\ Before(event.StartDate, fromDate))
    /\ ~(~IsZero(toDate) /\ After(event.StartDate, toDate))
    /\ ~(args.HasOpenCFP /\
         (~After(event.CFPEndDate, now) \/ event.CFP.Link = Str0))
    /\ ~(~IsZero(cfpFromDate) /\ Before(event.CFPEndDate, cfpFromDate))
    /\ ~(~IsZero(cfpToDate) /\ After(event.CFPEndDate, cfpToDate))

\* the break, were it taken one event late
LimitExceeded(limit, count) == limit > 0 /\ count > limit

\* lines 206, 238, 314: the break, count events being appended so far
LimitReached(limit, count) == limit > 0 /\ count >= limit

\* a range loop that appends the events its test holds of and breaks once
\* limit > 0 of them are appended: the rest of the loop from index i on,
\* with acc appended so far.  keep[i] is what the test gives for events[i]
RECURSIVE CollectFrom(_, _, _, _, _)
CollectFrom(events, keep, limit, i, acc) ==
    IF i > Len(events)
    THEN acc
    ELSE IF ~keep[i]
    THEN CollectFrom(events, keep, limit, i + 1, acc)
    ELSE IF LimitReached(limit, Len(acc) + 1)
    THEN Append(acc, events[i])
    ELSE CollectFrom(events, keep, limit, i + 1, Append(acc, events[i]))

\* lines 140-218
search_events(got, now, args) ==
    LET fromDate    == IF args.FromDate # Str0
                       THEN ParseDate(args.FromDate)
                       ELSE [ok |-> TRUE, t |-> ZeroTime]
        toDate      == IF args.ToDate # Str0
                       THEN ParseDate(args.ToDate)
                       ELSE [ok |-> TRUE, t |-> ZeroTime]
        cfpFromDate == IF args.CFPFromDate # Str0
                       THEN ParseDate(args.CFPFromDate)
                       ELSE [ok |-> TRUE, t |-> ZeroTime]
        cfpToDate   == IF args.CFPToDate # Str0
                       THEN ParseDate(args.CFPToDate)
                       ELSE [ok |-> TRUE, t |-> ZeroTime]
        keep        == [i \in 1..Len(got.events) |->
                           Matches(got.events[i], args, now, fromDate.t,
                                   toDate.t, cfpFromDate.t, cfpToDate.t)]
    IN  IF got.err # NoError
        THEN TextResponse("Error fetching events: ", got.err)
        ELSE IF ~fromDate.ok
        THEN TextResponse("Invalid fromDate format: ", ParseError)
        ELSE IF ~toDate.ok
        THEN TextResponse("Invalid toDate format: ", ParseError)
        ELSE IF ~cfpFromDate.ok
        THEN TextResponse("Invalid cfpFromDate format: ", ParseError)
        ELSE IF ~cfpToDate.ok
        THEN TextResponse("Invalid cfpToDate format: ", ParseError)
        ELSE EventsResponse(CollectFrom(got.events, keep, args.Limit, 1, <<>>))

\* the test, were the link not looked at
HasFutureDeadline(event, now) == After(event.CFPEndDate, now)

\* lines 235 and 284
HasOpenCFP(event, now) ==
    After(event.CFPEndDate, now) /\ event.CFP.Link # Str0

\* lines 224-250
open_cfps(got, now, args) ==
    LET keep == [i \in 1..Len(got.events) |-> HasOpenCFP(got.events[i], now)]
    IN  IF got.err # NoError
        THEN TextResponse("Error fetching events: ", got.err)
        ELSE EventsResponse(CollectFrom(got.events, keep, args.Limit, 1, <<>>))

\* lines 256-268
all_events(got) ==
    IF got.err # NoError THEN Failure(got.err)
    ELSE EventsResponse(got.events)

\* lines 274-295: the loop has no limit
open_cfps_resource(got, now) ==
    LET keep == [i \in 1..Len(got.events) |-> HasOpenCFP(got.events[i], now)]
    IN  IF got.err # NoError THEN Failure(got.err)
        ELSE EventsResponse(CollectFrom(got.events, keep, 0, 1, <<>>))

\* upcoming_events, were it to return the error as the resources do
upcoming_events_returns_err(got, now, args) ==
    LET keep == [i \in 1..Len(got.events) |->
                    After(got.events[i].StartDate, now)]
    IN  IF got.err # NoError
        THEN Failure(got.err)
        ELSE EventsResponse(CollectFrom(got.events, keep, args.Limit, 1, <<>>))

\* lines 301-326
upcoming_events(got, now, args) ==
    LET keep == [i \in 1..Len(got.events) |->
                    After(got.events[i].StartDate, now)]
    IN  IF got.err # NoError
        THEN TextResponse("Error fetching events: ", got.err)
        ELSE EventsResponse(CollectFrom(got.events, keep, args.Limit, 1, <<>>))

\* now.AddDate(0, 0, days) for days >= 0, the clock being read in UTC
AddDays(t, days) ==
    [sec |-> AddW(t.sec, MulNat(FromNat(days), 86400)), nsec |-> t.nsec]

\* cfp_deadlines_soon, were an event whose deadline is the end of the
\* window kept
cfp_deadlines_soon_to_deadline(got, now, args) ==
    LET days     == IF args.Days <= 0 THEN 30 ELSE args.Days
        deadline == AddDays(now, days)
        keep     == [i \in 1..Len(got.events) |->
                        /\ After(got.events[i].CFPEndDate, now)
                        /\ ~After(got.events[i].CFPEndDate, deadline)
                        /\ got.events[i].CFP.Link # Str0]
    IN  IF got.err # NoError
        THEN TextResponse("Error fetching events: ", got.err)
        ELSE EventsResponse(CollectFrom(got.events, keep, 0, 1, <<>>))

\* lines 332-359
cfp_deadlines_soon(got, now, args) ==
    LET days     == IF args.Days <= 0 THEN 30 ELSE args.Days
        deadline == AddDays(now, days)
        keep     == [i \in 1..Len(got.events) |->
                        /\ After(got.events[i].CFPEndDate, now)
                        /\ Before(got.events[i].CFPEndDate, deadline)
                        /\ got.events[i].CFP.Link # Str0]
    IN  IF got.err # NoError
        THEN TextResponse("Error fetching events: ", got.err)
        ELSE EventsResponse(CollectFrom(got.events, keep, 0, 1, <<>>))

--------------------------------------------------------------------------
(* the inputs: feed documents, what the GET gives, clock readings *)

\* the longest event list a feed serves
MaxEvents == 5

\* millisecond timestamps, as the feed writes them
Ms1699 == <<1, 6, 9, 9, 0, 0, 0, 0, 0, 0, 0, 0, 0>>  \* 2023-11-03 09:46:40
Ms1700 == <<1, 7, 0, 0, 0, 0, 0, 0, 0, 0, 0, 0, 0>>  \* 2023-11-14 22:13:20
Ms1701 == <<1, 7, 0, 1, 0, 0, 0, 0, 0, 0, 0, 0, 0>>  \* 2023-11-26 11:46:40
Ms1702 == <<1, 7, 0, 2, 0, 0, 0, 0, 0, 0, 0, 0, 0>>  \* 2023-12-08 01:46:40
Ms1704 == <<1, 7, 0, 4, 0, 0, 0, 0, 0, 0, 0, 0, 0>>  \* 2023-12-31 05:20:00
Ms1705 == <<1, 7, 0, 5, 0, 0, 0, 0, 0, 0, 0, 0, 0>>  \* 2024-01-11 19:06:40
\* 14 days after Ms1699, to the millisecond
MsSoon == <<1, 7, 0, 0, 2, 0, 9, 6, 0, 0, 0, 0, 0>>
\* the first millisecond count whose nanosecond count leaves int64
MsWrap == <<9, 2, 2, 3, 3, 7, 2, 0, 3, 6, 8, 5, 5>>

JsonEvent(name, date, location, country, link, untilDate) ==
    [wellTyped |-> TRUE, name |-> name, date |-> date,
     location |-> location, city |-> Str0, country |-> country,
     misc |-> Str0, link |-> link, untilDate |-> untilDate]

\* the events feeds are cut from, in feed order
Catalogue ==
    << JsonEvent(<<"G", "o", "C">>, <<Num(FALSE, Ms1700)>>,
                 <<"B", "e", "r", "n">>, <<"C", "H">>,
                 <<"c", "1">>, Num(FALSE, Ms1699)),
       JsonEvent(<<"P", "y">>, <<>>,
                 Str0, <<"g", "o">>,
                 <<"c", "2">>, Num(FALSE, Ms1701)),
       JsonEvent(<<"R", "s">>,
                 <<Num(FALSE, Ms1702), Num(FALSE, Ms1700)>>,
                 <<"b", "e", "r", "g">>, <<"N", "O">>,
                 Str0, Num(FALSE, Ms1701)),
       JsonEvent(<<"G", "O", "t", "o">>,
                 <<Num(FALSE, Ms1701), Num(FALSE, Ms1702)>>,
                 <<"O", "s", "l", "o">>, <<"N", "O">>,
                 <<"c", "4">>, Num(FALSE, <<0>>)),
       JsonEvent(<<"J", "S">>, <<Num(FALSE, Ms1705)>>,
                 <<"B", "E", "R", "N">>, <<"C", "H">>,
                 <<"c", "5">>, Num(FALSE, Ms1700)),
       JsonEvent(<<"F", "a", "r">>,
                 <<Num(FALSE, Ms1704), Num(FALSE, MsWrap)>>,
                 Str0, Str0,
                 <<"c", "6">>, Num(TRUE, Ms1699)),
       JsonEvent(<<"Z">>, <<Num(FALSE, <<0>>)>>,
                 Str0, Str0,
                 <<"c", "7">>, Num(FALSE, MsSoon)) >>

\* the event lists a feed may serve: runs of the catalogue
EventLists ==
    { SubSeq(Catalogue, w[1], w[1] + w[2] - 1) :
        w \in { v \in (1..Len(Catalogue)) \X (0..MaxEvents) :
                  v[1] + v[2] - 1 <= Len(Catalogue) } }

\* an object whose "name" holds a number, and one whose date leaves int64
IllTyped ==
    { [Catalogue[1] EXCEPT !.wellTyped = FALSE],
      [Catalogue[1] EXCEPT !.date = <<Num(FALSE, MaxInt64Digits \o <<0>>)>>] }

JsonDoc(shape, hasEvents, items) ==
    [shape |-> shape, hasEvents |-> hasEvents, items |-> items]

\* [...]
BareArray(items) == JsonDoc("array", FALSE, items)

\* {"events": [...]}
Wrapper(items) == JsonDoc("object", TRUE, items)

Documents ==
    { BareArray(es) : es \in EventLists }
    \cup { Wrapper(es) : es \in EventLists }
    \cup { BareArray(<<Catalogue[1], o, Catalogue[2]>>) : o \in IllTyped }
    \cup { Wrapper(<<Catalogue[1], o, Catalogue[2]>>) : o \in IllTyped }
    \cup { JsonDoc("object", FALSE, <<>>),     \* {}
           JsonDoc("null", FALSE, <<>>),       \* null
           JsonDoc("number", FALSE, <<>>),     \* 5
           JsonDoc("truncated", FALSE, <<>>),  \* {"events": [{"name": "Te
           JsonDoc("empty", FALSE, <<>>) }     \* no bytes at all

Response(status, read, body) ==
    [transport |-> "nil", status |-> status, read |-> read, body |-> body]

\* what http.Get and io.ReadAll can give
Gets ==
    { Response(StatusOK, "nil", d) : d \in Documents }
    \cup { Response(c, "nil", BareArray(<<Catalogue[1]>>)) :
             c \in {204, 404, 500} }
    \cup { Response(StatusOK, "unexpected EOF", JsonDoc("empty", FALSE, <<>>)),
           [transport |-> "dial tcp: connection refused", status |-> 0,
            read |-> "nil", body |-> JsonDoc("empty", FALSE, <<>>)] }

\* what the handlers are run against: a handler sees only what
\* fetchAndParseEvents returns, which is the same for the two shapes of a
\* list, so one wrapper is kept
HandlerGets ==
    { g \in Gets : (g.body.shape = "object" /\ g.body.hasEvents) =>
                       g.body.items = SubSeq(Catalogue, 1, 2) }

\* readings of time.Now(), in ascending order
Clocks ==
    << millisToTime(FromDigits(<<1, 6, 9, 8, 0, 0, 0, 0, 0, 0, 0, 0, 0>>)),
       millisToTime(FromDigits(Ms1699)),
       [millisToTime(FromDigits(<<1, 7, 0, 0, 5, 0, 0, 0, 0, 0, 0, 0, 0>>))
            EXCEPT !.nsec = 123456789] >>

\* the largest limit a caller passes
MaxLimit == 2

\* how many of the options of search_events one call sets
MaxOptions == 2

Queries == {Str0, <<"g", "o">>}
Locations == {Str0, <<"B", "e", "r">>}
FromDates ==
    {Str0, <<"2", "0", "2", "3", "-", "1", "1", "-", "1", "5">>,
           <<"2", "0", "2", "5", "-", "1", "3", "-", "4", "0">>,
           <<"0", "0", "0", "1", "-", "0", "1", "-", "0", "1">>}
ToDates ==
    {Str0, <<"2", "0", "2", "3", "-", "1", "2", "-", "0", "1">>,
           <<"2", "0", "2", "3", "-", "1", "1">>}
CFPFromDates ==
    {Str0, <<"2", "0", "2", "3", "-", "1", "1", "-", "1", "0">>,
           <<"1", "1", "/", "1", "0", "/", "2", "0", "2", "3">>}
CFPToDates ==
    {Str0, <<"2", "0", "2", "3", "-", "1", "2", "-", "1", "5">>,
           <<"2", "0", "2", "3", "-", "0", "2", "-", "3", "0">>}

NoFilter ==
    [Query |-> Str0, Location |-> Str0, FromDate |-> Str0, ToDate |-> Str0,
     HasOpenCFP |-> FALSE, CFPFromDate |-> Str0, CFPToDate |-> Str0,
     Limit |-> 0]

OptionsSet(a) == { f \in DOMAIN NoFilter : a[f] # NoFilter[f] }

SearchEventsArgs ==
    { a \in [Query : Queries, Location : Locations, FromDate : FromDates,
             ToDate : ToDates, HasOpenCFP : BOOLEAN,
             CFPFromDate : CFPFromDates, CFPToDate : CFPToDates,
             Limit : -1..MaxLimit] :
        Cardinality(OptionsSet(a)) <= MaxOptions }

LimitArgs == [Limit : -1..MaxLimit]

DaysArgs == [Days : {-1, 0, 14}]

\* The arguments object of a cfp_deadlines_soon request: its members, each
\* a key and an integer.  The README's example is {"days": 14}.
DaysKeys == { <<"d", "a", "y", "s">>, <<"d", "a", "t", "e">>,
              <<"D", "a", "t", "e">> }

DaysRequests ==
    {<<>>} \cup { <<[key |-> k, value |-> n]>> : k \in DaysKeys,
                                                n \in {-1, 0, 14} }

\* json.Unmarshal of the arguments object into a DaysArgs: the one field,
\* Days, is filled from the member whose key is the field's json tag, "date",
\* in any case; other members are skipped, and a field no member fills
\* keeps its zero value
RECURSIVE UnmarshalDaysArgs(_)
UnmarshalDaysArgs(members) ==
    IF members = <<>>
    THEN [Days |-> 0]
    ELSE LET last == members[Len(members)]
         IN  IF ToLower(last.key) = <<"d", "a", "t", "e">>
             THEN [Days |-> last.value]
             ELSE UnmarshalDaysArgs(SubSeq(members, 1, Len(members) - 1))

--------------------------------------------------------------------------
VARIABLES
    feed,          \* what a GET of eventDataURL gives at present
    clock,         \* index in Clocks of what time.Now() reads at present
    call,          \* the request being answered: the handler, its
                   \* arguments, what its fetch and its clock gave, and
                   \* what it returned
    fetched,       \* what the FetchAndParseEvents call in progress returned
    millis,        \* argument of the last millisToTime call
    converted,     \* its result
    prevMillis,    \* argument of the call before it
    prevConverted, \* and its result
    probe,         \* the last call of contains, or of the search_events
                   \* handler with a query: its arguments and its result
    invocations,   \* the handler invocations running concurrently: for
                   \* each, its position and its local variables
    eventDataURL   \* the package-level variable of that name

vars == <<feed, clock, call, fetched, millis, converted, prevMillis,
          prevConverted, probe, invocations, eventDataURL>>

\* no request being answered
NoCall == [op |-> "none"]

\* no call in progress
Idle == [events |-> <<>>, err |-> [kind |-> "idle", code |-> 0, cause |-> "nil"]]

\* how many invocations the server runs at once
MaxInvocations == 2

\* line 15: what eventDataURL is initialized to
DevelopersEvents == "https://developers.events/all-events.json"

\* a goroutine of the server with no request to answer
NotRunning == [pc |-> "idle"]

\* the requests answered concurrently: the operation and its arguments
ConcurrentCalls ==
    { [op |-> "search_events", args |-> [NoFilter EXCEPT !.HasOpenCFP = TRUE]],
      [op |-> "upcoming_events", args |-> [Limit |-> 1]],
      [op |-> "events://all", args |-> <<>>] }

\* what the feed serves meanwhile
ConcurrentGets ==
    { Response(StatusOK, "nil", BareArray(<<>>)),
      Response(StatusOK, "nil", BareArray(SubSeq(Catalogue, 1, 2))),
      Response(500, "nil", BareArray(<<>>)) }

\* neither called yet
NoProbe == [op |-> "none"]

\* the longest text contains is called with
MaxText == 2

\* a letter in both cases, and the sigma in its three forms
Letters == {"g", "G", "U+03C3", "U+03A3", "U+03C2"}

Texts == UNION { [1..n -> Letters] : n \in 0..MaxText }

\* an event with nothing but its texts
TextEvent(name, location, city, country, misc) ==
    [ProcessComputedFields(
         DecodeEvent(JsonEvent(name, <<>>, location, country, Str0,
                               Num(FALSE, <<0>>))))
     EXCEPT !.City = city, !.Misc = misc]

TextEvents ==
    { TextEvent(n, l, c, k, m) :
        n \in { t \in Texts : Len(t) <= 1 },
        l \in {Str0, <<"G">>, <<"U+03A3">>},
        c \in {Str0, <<"g">>},
        k \in {Str0, <<"U+03C2">>},
        m \in {Str0, <<"g">>} }

MillisInputs ==
    { FromDigits(ds) : ds \in {
        <<0>>, <<1>>, <<2>>,
        <<1, 5, 5, 4, 3, 2, 3, 2, 0, 0, 0, 0, 0>>,
        <<1, 7, 6, 2, 7, 5, 2, 0, 0, 0, 0, 0, 0>>,
        <<1, 6, 9, 9, 0, 0, 0, 0, 0, 0, 0, 0, 0>>,
        <<1, 7, 0, 0, 0, 0, 0, 0, 0, 0, 0, 0, 0>>,
        <<9, 2, 2, 3, 3, 7, 2, 0, 3, 6, 8, 5, 4>>,
        <<9, 2, 2, 3, 3, 7, 2, 0, 3, 6, 8, 5, 5>>,
        <<1, 8, 4, 4, 6, 7, 4, 4, 0, 7, 3, 7, 0, 9>>,
        <<1, 8, 4, 4, 6, 7, 4, 4, 0, 7, 3, 7, 1, 0>>,
        MaxInt64Digits } }

Init ==
    /\ feed = Response(StatusOK, "nil", BareArray(<<>>))
    /\ clock = 1
    /\ call = NoCall
    /\ fetched = Idle
    /\ millis = Zero64
    /\ converted = ZeroTime
    /\ prevMillis = Zero64
    /\ prevConverted = ZeroTime
    /\ probe = NoProbe
    /\ invocations = [i \in 1..MaxInvocations |-> NotRunning]
    /\ eventDataURL = DevelopersEvents

Convert(m) ==
    /\ prevMillis' = millis
    /\ prevConverted' = converted
    /\ millis' = m
    /\ converted' = millisToTime(m)
    /\ UNCHANGED <<feed, clock, call, fetched, probe, invocations,
                   eventDataURL>>

ConvNext == \E m \in MillisInputs : Convert(m)

SpecConv == Init /\ [][ConvNext]_vars

\* a call of contains
Contains(s, substr) ==
    /\ probe = NoProbe
    /\ probe' = [op |-> "contains", s |-> s, substr |-> substr,
                 found |-> contains(s, substr)]
    /\ UNCHANGED <<feed, clock, call, fetched, millis, converted, prevMillis,
                   prevConverted, invocations, eventDataURL>>

\* a call of the search_events handler with a query and no other option,
\* the feed serving the one event
QueryEvent(event, query) ==
    /\ probe = NoProbe
    /\ probe' = [op |-> "search_events", event |-> event, query |-> query,
                 resp |-> search_events(
                              [events |-> <<event>>, err |-> NoError],
                              Clocks[1], [NoFilter EXCEPT !.Query = query])]
    /\ UNCHANGED <<feed, clock, call, fetched, millis, converted, prevMillis,
                   prevConverted, invocations, eventDataURL>>

\* the caller has taken the result
ProbeReturns ==
    /\ probe # NoProbe
    /\ probe' = NoProbe
    /\ UNCHANGED <<feed, clock, call, fetched, millis, converted, prevMillis,
                   prevConverted, invocations, eventDataURL>>

ContainsNext ==
    \/ \E s \in Texts, substr \in Texts : Contains(s, substr)
    \/ \E event \in TextEvents, query \in Texts \ {Str0} :
          QueryEvent(event, query)
    \/ ProbeReturns

SpecContains == Init /\ [][ContainsNext]_vars

\* the feed serves something else from now on
FeedChanges(g) ==
    /\ fetched = Idle
    /\ call = NoCall
    /\ g # feed
    /\ feed' = g
    /\ UNCHANGED <<clock, call, fetched, millis, converted, prevMillis,
                   prevConverted, probe, invocations, eventDataURL>>

\* a call of the exported FetchAndParseEvents
FetchAndParseEvents ==
    /\ fetched = Idle
    /\ fetched' = fetchAndParseEvents(feed)
    /\ UNCHANGED <<feed, clock, call, millis, converted, prevMillis,
                   prevConverted, probe, invocations, eventDataURL>>

\* the caller has taken the result
FetchReturns ==
    /\ fetched # Idle
    /\ fetched' = Idle
    /\ UNCHANGED <<feed, clock, call, millis, converted, prevMillis,
                   prevConverted, probe, invocations, eventDataURL>>

FetchNext ==
    \/ \E g \in Gets : FeedChanges(g)
    \/ FetchAndParseEvents
    \/ FetchReturns

SpecFetch == Init /\ [][FetchNext]_vars

\* time passes between two requests
Tick ==
    /\ call = NoCall
    /\ clock < Len(Clocks)
    /\ clock' = clock + 1
    /\ UNCHANGED <<feed, call, fetched, millis, converted, prevMillis,
                   prevConverted, probe, invocations, eventDataURL>>

\* a handler runs from its first line to its return: got is what its call
\* of fetchAndParseEvents returns, now what its time.Now() reads.  args is
\* the handler's argument; for cfp_deadlines_soon, the arguments object of
\* the request, which is decoded into the handler's argument
Answer(op, args, got, resp) ==
    /\ call = NoCall
    /\ call' = [op |-> op, args |-> args, got |-> got, now |-> Clocks[clock],
                resp |-> resp]
    /\ UNCHANGED <<feed, clock, fetched, millis, converted, prevMillis,
                   prevConverted, probe, invocations, eventDataURL>>

SearchEvents ==
    LET got == fetchAndParseEvents(feed)
    IN  \E args \in SearchEventsArgs :
            Answer("search_events", args, got,
                   search_events(got, Clocks[clock], args))

OpenCFPs ==
    LET got == fetchAndParseEvents(feed)
    IN  \E args \in LimitArgs :
            Answer("open_cfps", args, got, open_cfps(got, Clocks[clock], args))

UpcomingEvents ==
    LET got == fetchAndParseEvents(feed)
    IN  \E args \in LimitArgs :
            Answer("upcoming_events", args, got,
                   upcoming_events(got, Clocks[clock], args))

CFPDeadlinesSoon ==
    LET got == fetchAndParseEvents(feed)
    IN  \E request \in DaysRequests :
            Answer("cfp_deadlines_soon", request, got,
                   cfp_deadlines_soon(got, Clocks[clock],
                                      UnmarshalDaysArgs(request)))

AllEvents ==
    LET got == fetchAndParseEvents(feed)
    IN  Answer("events://all", <<>>, got, all_events(got))

OpenCFPsResource ==
    LET got == fetchAndParseEvents(feed)
    IN  Answer("events://open-cfps", <<>>, got,
               open_cfps_resource(got, Clocks[clock]))

\* the response is written to the client; the server reads the next request
Respond ==
    /\ call # NoCall
    /\ call' = NoCall
    /\ UNCHANGED <<feed, clock, fetched, millis, converted, prevMillis,
                   prevConverted, probe, invocations, eventDataURL>>

Next ==
    \/ \E g \in HandlerGets : FeedChanges(g)
    \/ Tick
    \/ SearchEvents
    \/ OpenCFPs
    \/ UpcomingEvents
    \/ CFPDeadlinesSoon
    \/ AllEvents
    \/ OpenCFPsResource
    \/ Respond

Spec == Init /\ [][Next]_vars

\* http.Get(url): the feed answers at the address eventDataURL starts with
Get(url) ==
    IF url = DevelopersEvents
    THEN feed
    ELSE [transport |-> "no such host", status |-> 0, read |-> "nil",
          body |-> BareArray(<<>>)]

\* the handler registered for c.op, from after its fetch to its return
Handle(c, got, now) ==
    CASE c.op = "search_events"      -> search_events(got, now, c.args)
      [] c.op = "open_cfps"          -> open_cfps(got, now, c.args)
      [] c.op = "upcoming_events"    -> upcoming_events(got, now, c.args)
      [] c.op = "cfp_deadlines_soon" ->
             cfp_deadlines_soon(got, now, UnmarshalDaysArgs(c.args))
      [] c.op = "events://all"       -> all_events(got)
      [] c.op = "events://open-cfps" -> open_cfps_resource(got, now)

\* events and err, were they one pair of package-level variables that the
\* first invocation under way has assigned
SharedEvents(i) ==
    invocations[CHOOSE j \in 1..MaxInvocations :
                    /\ invocations[j].pc # "idle"
                    /\ \A k \in 1..(j - 1) : invocations[k].pc = "idle"].got

\* events and err as invocation i reads them: variables of its own call of
\* the handler, assigned at the handler's first line
LocalEvents(i) == invocations[i].got

\* invocation i is called with request c and runs to the return of its
\* fetchAndParseEvents()
Begin(i, c) ==
    /\ invocations[i].pc = "idle"
    /\ invocations' =
          [invocations EXCEPT
             ![i] = [pc |-> "fetched", call |-> c,
                     got |-> fetchAndParseEvents(Get(eventDataURL))]]
    /\ UNCHANGED <<feed, clock, call, fetched, millis, converted, prevMillis,
                   prevConverted, probe, eventDataURL>>

\* invocation i runs from there to its return; time.Now() is read unless
\* the fetch failed
Finish(i) ==
    /\ invocations[i].pc = "fetched"
    /\ LET own == invocations[i]
           now == IF LocalEvents(i).err # NoError
                  THEN ZeroTime ELSE Clocks[clock]
       IN  invocations' =
             [invocations EXCEPT
                ![i] = [pc |-> "returned", call |-> own.call,
                        got |-> own.got, now |-> now,
                        resp |-> Handle(own.call, LocalEvents(i), now)]]
    /\ UNCHANGED <<feed, clock, call, fetched, millis, converted, prevMillis,
                   prevConverted, probe, eventDataURL>>

\* the response of invocation i is sent
Done(i) ==
    /\ invocations[i].pc = "returned"
    /\ invocations' = [invocations EXCEPT ![i] = NotRunning]
    /\ UNCHANGED <<feed, clock, call, fetched, millis, converted, prevMillis,
                   prevConverted, probe, eventDataURL>>

ConcurrentNext ==
    \/ \E g \in ConcurrentGets : FeedChanges(g)
    \/ Tick
    \/ \E i \in 1..MaxInvocations, c \in ConcurrentCalls : Begin(i, c)
    \/ \E i \in 1..MaxInvocations : Finish(i)
    \/ \E i \in 1..MaxInvocations : Done(i)

SpecConcurrent == Init /\ [][ConcurrentNext]_vars

--------------------------------------------------------------------------
(* the handlers: claims C1-C5 and C7, under Spec *)

Answering(op) == call # NoCall /\ call.op = op

\* what the handler's call of fetchAndParseEvents returned, and its clock
Got == call.got
Now == call.now

\* s is a calendar date written YYYY-MM-DD
IsCalendarDate(s) ==
    /\ Len(s) = 10
    /\ \A i \in 1..10 : IF i \in {5, 8} THEN s[i] = "-" ELSE s[i] \in Digits
    /\ LET y == 1000 * DigitVal(s[1]) + 100 * DigitVal(s[2])
                    + 10 * DigitVal(s[3]) + DigitVal(s[4])
           m == 10 * DigitVal(s[6]) + DigitVal(s[7])
           d == 10 * DigitVal(s[9]) + DigitVal(s[10])
       IN  /\ 1 <= m /\ m <= 12
           /\ 1 <= d
           /\ d <= (CASE m \in {1, 3, 5, 7, 8, 10, 12} -> 31
                      [] m \in {4, 6, 9, 11} -> 30
                      [] OTHER -> IF y % 4 = 0 /\ (y % 100 # 0 \/ y % 400 = 0)
                                  THEN 29 ELSE 28)

\* C1: each open-CFP path (search_events with hasOpenCFP, open_cfps,
\* events://open-cfps) returns an event only if its cfp.link is not empty,
\* its cfpEndDate is set (untilDate is not 0) and its cfpEndDate is
\* strictly after now.
C1_OnlyOpenCFPs ==
    (\/ Answering("search_events") /\ call.args.HasOpenCFP
     \/ Answering("open_cfps")
     \/ Answering("events://open-cfps")) =>
        \A i \in 1..Len(call.resp.events) :
            LET e == call.resp.events[i]
            IN  /\ e.CFP.Link # Str0
                /\ e.CFP.UntilDate # Zero64
                /\ ~IsZero(e.CFPEndDate)
                /\ After(e.CFPEndDate, Now)

\* the feed lists an event with a deadline after now and no link, and one
\* with a link and untilDate 0; open_cfps returns some event and neither
C1_Witness ==
    /\ Answering("open_cfps")
    /\ call.resp.events # <<>>
    /\ \E i \in 1..Len(Got.events) :
          /\ Got.events[i].CFP.Link = Str0
          /\ After(Got.events[i].CFPEndDate, Now)
    /\ \E i \in 1..Len(Got.events) :
          /\ Got.events[i].CFP.Link # Str0
          /\ Got.events[i].CFP.UntilDate = Zero64

StartInWindow(e, args) ==
    /\ ~IsZero(e.StartDate)
    /\ args.FromDate # Str0 => ~Before(e.StartDate, ParseDate(args.FromDate).t)
    /\ args.ToDate # Str0 => ~After(e.StartDate, ParseDate(args.ToDate).t)

\* C2: with fromDate or toDate supplied, search_events keeps an event
\* exactly when its startDate is set, not before fromDate and not after
\* toDate; an event whose startDate is unset is never returned.
C2_StartDateWindow ==
    (/\ Answering("search_events")
     /\ call.resp.content = "events"
     /\ call.args.FromDate # Str0 \/ call.args.ToDate # Str0) =>
        /\ \A i \in 1..Len(call.resp.events) :
              StartInWindow(call.resp.events[i], call.args)
        /\ OptionsSet(call.args) \subseteq {"FromDate", "ToDate"} =>
              call.resp.events =
                  SelectSeq(Got.events, LAMBDA e : StartInWindow(e, call.args))

DeadlineInWindow(e, args) ==
    /\ ~IsZero(e.CFPEndDate)
    /\ args.CFPFromDate # Str0 =>
          ~Before(e.CFPEndDate, ParseDate(args.CFPFromDate).t)
    /\ args.CFPToDate # Str0 =>
          ~After(e.CFPEndDate, ParseDate(args.CFPToDate).t)

\* C3: with cfpFromDate or cfpToDate supplied, search_events keeps an
\* event exactly when its cfpEndDate is set, not before cfpFromDate and not
\* after cfpToDate; an event whose cfpEndDate is unset is never returned.
C3_DeadlineWindow ==
    (/\ Answering("search_events")
     /\ call.resp.content = "events"
     /\ call.args.CFPFromDate # Str0 \/ call.args.CFPToDate # Str0) =>
        /\ \A i \in 1..Len(call.resp.events) :
              DeadlineInWindow(call.resp.events[i], call.args)
        /\ OptionsSet(call.args) \subseteq {"CFPFromDate", "CFPToDate"} =>
              call.resp.events =
                  SelectSeq(Got.events,
                            LAMBDA e : DeadlineInWindow(e, call.args))

\* what the handler answering returns when called with the limit left out
Unlimited ==
    CASE call.op = "search_events" ->
             search_events(Got, Now, [call.args EXCEPT !.Limit = 0])
      [] call.op = "open_cfps" ->
             open_cfps(Got, Now, [call.args EXCEPT !.Limit = 0])
      [] call.op = "upcoming_events" ->
             upcoming_events(Got, Now, [call.args EXCEPT !.Limit = 0])

\* C4: search_events, open_cfps and upcoming_events with limit N > 0 return
\* the first N events of what the same call returns without a limit, or
\* all of them when there are fewer; with limit <= 0 they return all.
C4_LimitIsPrefix ==
    (\/ Answering("search_events")
     \/ Answering("open_cfps")
     \/ Answering("upcoming_events")) =>
        /\ call.resp.content = Unlimited.content
        /\ call.resp.prefix = Unlimited.prefix
        /\ IF call.args.Limit > 0 /\ call.args.Limit < Len(Unlimited.events)
           THEN call.resp.events = SubSeq(Unlimited.events, 1, call.args.Limit)
           ELSE call.resp.events = Unlimited.events

\* limit 2 over a feed of five events, all of which match
C4_Witness ==
    /\ Answering("search_events")
    /\ call.args = [NoFilter EXCEPT !.Limit = 2]
    /\ Len(Got.events) = 5
    /\ call.resp.events = SubSeq(Got.events, 1, 2)

DateOptions == <<"FromDate", "ToDate", "CFPFromDate", "CFPToDate">>

InvalidDate(args, f) == args[f] # Str0 /\ ~IsCalendarDate(args[f])

InvalidPrefix(f) ==
    CASE f = "FromDate"    -> "Invalid fromDate format: "
      [] f = "ToDate"      -> "Invalid toDate format: "
      [] f = "CFPFromDate" -> "Invalid cfpFromDate format: "
      [] f = "CFPToDate"   -> "Invalid cfpToDate format: "

\* C5, as claimed: whenever a date option of search_events is not empty
\* and not a calendar date, the response is an invalid-date message that
\* names an option that failed to parse, and holds no events.
C5_InvalidDateReported ==
    (/\ Answering("search_events")
     /\ \E k \in 1..4 : InvalidDate(call.args, DateOptions[k])) =>
        /\ call.resp.content = "message"
        /\ call.resp.events = <<>>
        /\ \E k \in 1..4 :
              /\ InvalidDate(call.args, DateOptions[k])
              /\ call.resp.prefix = InvalidPrefix(DateOptions[k])

\* C5, amended: the events are fetched first.  When the fetch fails, its
\* error is the message; when it succeeds, the message names the first of
\* fromDate, toDate, cfpFromDate, cfpToDate that does not parse.  Either
\* way the response holds no events: the option is never ignored.
C5_InvalidDateAfterFetch ==
    (/\ Answering("search_events")
     /\ \E k \in 1..4 : InvalidDate(call.args, DateOptions[k])) =>
        LET first == CHOOSE k \in 1..4 :
                        /\ InvalidDate(call.args, DateOptions[k])
                        /\ \A j \in 1..(k-1) :
                              ~InvalidDate(call.args, DateOptions[j])
        IN  /\ call.resp.failure = NoError
            /\ call.resp.content = "message"
            /\ call.resp.events = <<>>
            /\ IF Got.err # NoError
               THEN /\ call.resp.prefix = "Error fetching events: "
                    /\ call.resp.cause = Got.err
               ELSE /\ call.resp.prefix = InvalidPrefix(DateOptions[first])
                    /\ call.resp.cause = ParseError

\* fromDate is 2025-13-40, the feed serves events, the message names it
C5_Witness ==
    /\ Answering("search_events")
    /\ call.args.FromDate = <<"2", "0", "2", "5", "-", "1", "3", "-", "4", "0">>
    /\ Got.err = NoError
    /\ Got.events # <<>>
    /\ call.resp.prefix = "Invalid fromDate format: "
    /\ call.resp.events = <<>>

Tools == {"search_events", "open_cfps", "upcoming_events", "cfp_deadlines_soon"}
Resources == {"events://all", "events://open-cfps"}

\* C7, as claimed: every operation reports a fetch or parse failure as a
\* text message inside a response, and returns no error of its own.
C7_ErrorsAreContent ==
    (call # NoCall /\ Got.err # NoError) =>
        /\ call.resp.failure = NoError
        /\ call.resp.content = "message"

\* C7, amended: the four tools report a fetch or parse failure as the text
\* message "Error fetching events: <error>" inside a response and return
\* no error; the two resources return no response and the error itself.
C7_ToolsReportResourcesFail ==
    (call # NoCall /\ Got.err # NoError) =>
        /\ call.op \in Tools =>
              /\ call.resp.failure = NoError
              /\ call.resp.content = "message"
              /\ call.resp.prefix = "Error fetching events: "
              /\ call.resp.cause = Got.err
        /\ call.op \in Resources =>
              /\ call.resp.failure = Got.err
              /\ call.resp.content = "none"

\* a resource is read while the feed answers 500
C7_Witness ==
    /\ Answering("events://all")
    /\ feed.status = 500
    /\ call.resp.failure.kind = "unexpected status code"

--------------------------------------------------------------------------
(* fetchAndParseEvents: claims C6, C8, C9, under SpecFetch *)

\* the event objects the document of the feed lists
Listed(doc) ==
    IF doc.shape = "array" \/ (doc.shape = "object" /\ doc.hasEvents)
    THEN doc.items ELSE <<>>

Served(g) == g.transport = "nil" /\ g.status = StatusOK /\ g.read = "nil"

\* C6: fetchAndParseEvents returns an error with no events, or no error
\* with one event for each object the document lists, in order; a status
\* outside 2xx gives the status error, and a document that is not JSON
\* gives the parse error.
C6_ErrorOrComplete ==
    fetched # Idle =>
        /\ fetched.err # NoError => fetched.events = <<>>
        /\ fetched.err = NoError =>
              /\ Served(feed)
              /\ Len(fetched.events) = Len(Listed(feed.body))
              /\ \A i \in 1..Len(fetched.events) :
                    /\ fetched.events[i].Name = Listed(feed.body)[i].name
                    /\ fetched.events[i].CFP.Link = Listed(feed.body)[i].link
        /\ (feed.transport = "nil" /\ feed.status \notin 200..299) =>
              /\ fetched.err.kind = "unexpected status code"
              /\ fetched.err.code = feed.status
        /\ (Served(feed) /\ ~SyntaxOK(feed.body)) =>
              fetched.err.kind = "failed to parse event data"

\* the feed answered 200 with a truncated document, and the fetch returned
\* the parse error
C6_Witness ==
    /\ fetched # Idle
    /\ Served(feed)
    /\ feed.body.shape = "truncated"
    /\ fetched.err.kind = "failed to parse event data"

\* C8: the bare array of E and the wrapper object of E normalize to the
\* same result: same events, same order, same derived dates.
C8_ShapesAgree ==
    (fetched # Idle /\ Served(feed) /\ feed.body.shape = "array") =>
        /\ fetched = fetchAndParseEvents(
                        [feed EXCEPT !.body = Wrapper(feed.body.items)])
        /\ \A i \in 1..Len(fetched.events) :
              fetched.events[i] =
                  ProcessComputedFields(DecodeEvent(feed.body.items[i]))

\* a bare array of two or more events was fetched, the first with a start
\* date and a CFP deadline
C8_Witness ==
    /\ fetched # Idle
    /\ Served(feed)
    /\ feed.body.shape = "array"
    /\ fetched.err = NoError
    /\ Len(fetched.events) >= 2
    /\ ~IsZero(fetched.events[1].StartDate)
    /\ ~IsZero(fetched.events[1].CFPEndDate)

\* C9: every event of a normalized list whose startDate and endDate are
\* both set has endDate >= startDate.
C9_EndNotBeforeStart ==
    fetched # Idle =>
        \A i \in 1..Len(fetched.events) :
            LET e == fetched.events[i]
            IN  (~IsZero(e.StartDate) /\ ~IsZero(e.EndDate)) =>
                    ~Before(e.EndDate, e.StartDate)

\* the document is an array of event objects
ArrayOfEvents(doc) ==
    /\ doc.shape = "array"
    /\ \A i \in 1..Len(doc.items) : Decodable(doc.items[i])

\* the document is an object whose "events", if it has one, is an array of
\* event objects
ObjectOfEvents(doc) ==
    /\ doc.shape = "object"
    /\ doc.hasEvents => \A i \in 1..Len(doc.items) : Decodable(doc.items[i])

\* C15: the parse error is returned only for a body that decodes neither
\* as an array of events nor as an object; an object without "events" and
\* the literal null give no events and no error.
C15_ParseErrorOnlyIfNeither ==
    (fetched # Idle /\ Served(feed)) =>
        /\ fetched.err # NoError =>
              /\ fetched.err.kind = "failed to parse event data"
              /\ ~ArrayOfEvents(feed.body)
              /\ ~ObjectOfEvents(feed.body)
              /\ feed.body.shape # "null"
        /\ (\/ feed.body.shape = "null"
            \/ feed.body.shape = "object" /\ ~feed.body.hasEvents) =>
              fetched = [events |-> <<>>, err |-> NoError]

\* the feed served {} and the fetch returned no events and no error
C15_Witness ==
    /\ fetched # Idle
    /\ Served(feed)
    /\ feed.body.shape = "object"
    /\ ~feed.body.hasEvents
    /\ fetched = [events |-> <<>>, err |-> NoError]

--------------------------------------------------------------------------
(* millisToTime: claim C10, under SpecConv *)

\* C10: of two positive inputs the smaller converts to the earlier time.
C10_StrictlyIncreasing ==
    (Less64(Zero64, prevMillis) /\ Less64(prevMillis, millis)) =>
        Before(prevConverted, converted)

--------------------------------------------------------------------------
(* cfp_deadlines_soon: claims C11 and C12, under Spec *)

\* the day count the handler is called with
DayCount == UnmarshalDaysArgs(call.args).Days

\* the members of the arguments object whose key is "days"
NamedDays == SelectSeq(call.args, LAMBDA m : m.key = <<"d", "a", "y", "s">>)

DeadlineSoon(e, now, n) ==
    /\ ~IsZero(e.CFPEndDate)
    /\ After(e.CFPEndDate, now)
    /\ Before(e.CFPEndDate, AddDays(now, n))
    /\ e.CFP.Link # Str0

\* C11: cfp_deadlines_soon with day count N returns exactly the events, in
\* feed order, whose cfpEndDate is set, strictly after now and strictly
\* before now + N days and whose cfp.link is not empty, N being 30 when the
\* count given is not positive; now is one instant for the whole call.
C11_DeadlinesSoon ==
    (Answering("cfp_deadlines_soon") /\ Got.err = NoError) =>
        LET n == IF DayCount > 0 THEN DayCount ELSE 30
        IN  /\ call.resp.failure = NoError
            /\ call.resp.content = "events"
            /\ call.resp.events =
                  SelectSeq(Got.events, LAMBDA e : DeadlineSoon(e, Now, n))

\* the count is 14; the feed lists an event whose deadline is 14 days after
\* now to the millisecond, which is left out, and one that is returned
C11_Witness ==
    /\ Answering("cfp_deadlines_soon")
    /\ DayCount = 14
    /\ call.resp.events # <<>>
    /\ \E i \in 1..Len(Got.events) :
          /\ Got.events[i].CFP.Link # Str0
          /\ Got.events[i].CFPEndDate = AddDays(Now, 14)
          /\ \A j \in 1..Len(call.resp.events) :
                call.resp.events[j] # Got.events[i]

\* C12: a cfp_deadlines_soon request with arguments {"days": N}, N > 0, is
\* answered with the window from now to now + N days: no event returned has
\* its CFP deadline at or after now + N days.
C12_DaysIsTheWindow ==
    (/\ Answering("cfp_deadlines_soon")
     /\ Len(call.args) = 1
     /\ NamedDays # <<>>
     /\ NamedDays[1].value > 0) =>
        \A i \in 1..Len(call.resp.events) :
            Before(call.resp.events[i].CFPEndDate,
                   AddDays(Now, NamedDays[1].value))

--------------------------------------------------------------------------
(* contains and the query option: claim C13, under SpecContains *)

\* the simple case folding of Unicode, which makes the forms of a letter
\* one
CaseFold ==
    [c \in Letters |->
        CASE c \in {"g", "G"} -> "g"
          [] c \in {"U+03C3", "U+03A3", "U+03C2"} -> "U+03C3"]

\* a and b differ in the case of their letters at most
SameIgnoringCase(a, b) ==
    /\ Len(a) = Len(b)
    /\ \A i \in 1..Len(a) : CaseFold[a[i]] = CaseFold[b[i]]

OccursIgnoringCase(sub, s) ==
    \E i \in 0..(Len(s) - Len(sub)) :
        SameIgnoringCase(SubSeq(s, i + 1, i + Len(sub)), sub)

\* C13: search_events with a query keeps an event exactly when the query,
\* compared without regard to case, occurs in name+location+city+country+
\* misc; contains(s, sub) does not change when the case of either argument
\* is changed, is true when sub is empty, and is false when s is empty and
\* sub is not.
C13_CaseInsensitiveSubstring ==
    /\ probe.op = "search_events" =>
          (probe.resp.events = <<probe.event>>) =
              OccursIgnoringCase(probe.query,
                                 probe.event.Name \o probe.event.Location
                                 \o probe.event.City \o probe.event.Country
                                 \o probe.event.Misc)
    /\ probe.op = "contains" =>
          /\ \A t \in Texts :
                SameIgnoringCase(t, probe.s) =>
                    contains(t, probe.substr) = probe.found
          /\ \A t \in Texts :
                SameIgnoringCase(t, probe.substr) =>
                    contains(probe.s, t) = probe.found
          /\ probe.substr = Str0 => probe.found
          /\ (probe.s = Str0 /\ probe.substr # Str0) => ~probe.found

\* C13 for texts in which no final sigma occurs
C13_WithoutFinalSigma ==
    LET plain(t) == \A i \in 1..Len(t) : t[i] # "U+03C2"
        text(e)  == e.Name \o e.Location \o e.City \o e.Country \o e.Misc
    IN  /\ (/\ probe.op = "search_events"
             /\ plain(probe.query)
             /\ plain(text(probe.event))) =>
              (probe.resp.events = <<probe.event>>) =
                  OccursIgnoringCase(probe.query, text(probe.event))
        /\ (probe.op = "contains" /\ plain(probe.s) /\ plain(probe.substr)) =>
              /\ \A t \in Texts :
                    (plain(t) /\ SameIgnoringCase(t, probe.s)) =>
                        contains(t, probe.substr) = probe.found
              /\ \A t \in Texts :
                    (plain(t) /\ SameIgnoringCase(t, probe.substr)) =>
                        contains(probe.s, t) = probe.found

--------------------------------------------------------------------------
(* concurrent invocations: claim C14, under SpecConcurrent *)

=============================================================================
